---------------------------- MODULE Spec2Model ----------------------------
(***************************************************************************)
(* A model of qdafile.py: the QDAfile class (construction from an array,   *)
(* _tofile, _fromfile) and unique_headers.                                 *)
(*                                                                         *)
(* Representation.                                                         *)
(*   - A file is a sequence of bytes (0..255).                             *)
(*   - A str / bytes value is the sequence of its code points.             *)
(*   - A float64 cell is a record [k, v, b]:                               *)
(*       k = "num": the number v/2 (v an integer, |v| < 2^30);             *)
(*       k = "nan": numpy.nan;                                             *)
(*       k = ">f4" | ">f8" | ">i4": the float64 obtained by upcasting the  *)
(*           element of that type whose big-endian bytes are b, for bytes  *)
(*           that denote no number of the form v/2 in range.               *)
(*   - An array is [shape |-> <<d1, ...>>, cells |-> <<row1, ...>>].       *)
(***************************************************************************)
EXTENDS Integers, Sequences, FiniteSets, TLC

VARIABLES pc, arg, t, fh, u, uh

vars == <<pc, arg, t, fh, u, uh>>

(***************************************************************************)
(* Bounds of the model (not program constants).                            *)
(***************************************************************************)
MaxColumns == 2
MaxWidth == 2
MaxNumber == 28

(***************************************************************************)
(* Program constants.                                                      *)
(***************************************************************************)
ColumnLimit == 1000
RowLimit == 32768
HeaderBlock == 512
HeaderWidth == 40
TrailerHeaderWidth == 128
TrailerSkip == 136

FileTag == <<0, 14, 1, 2, 0, 5, 0, 1>>
ColumnTag == <<14, 2, 1, 0, 5, 0, 0, 1>>
RowMarker == <<0, 1>>

(***************************************************************************)
(* Generic helpers.                                                        *)
(***************************************************************************)
Min(a, b) == IF a <= b THEN a ELSE b

Max(a, b) == IF a >= b THEN a ELSE b

Abs(a) == IF a < 0 THEN -a ELSE a

Pow2Table == <<1, 2, 4, 8, 16, 32, 64, 128, 256, 512, 1024, 2048, 4096,
               8192, 16384, 32768, 65536, 131072, 262144, 524288, 1048576,
               2097152, 4194304, 8388608, 16777216, 33554432, 67108864,
               134217728, 268435456, 536870912, 1073741824>>

Pow2(n) == Pow2Table[n + 1]

\* floor(log2(a)) for 1 <= a < 2^31
Log2(a) == CHOOSE e \in 0..30 : Pow2(e) <= a /\ (e = 30 \/ a < Pow2(e + 1))

Zeros(n) == [i \in 1..Max(n, 0) |-> 0]

\* b * n for a bytes value b: the empty sequence when n <= 0
RECURSIVE Repeat(_, _)
Repeat(b, n) == IF n <= 0 THEN <<>> ELSE b \o Repeat(b, n - 1)

RECURSIVE Flatten(_)
Flatten(ss) == IF ss = <<>> THEN <<>> ELSE Head(ss) \o Flatten(Tail(ss))

RECURSIVE SeqMax(_)
SeqMax(s) == IF Len(s) = 1 THEN s[1] ELSE Max(s[1], SeqMax(Tail(s)))

\* s[a:b] of Python for 0 <= a, written with 0-based bounds
Slice(s, a, b) ==
    LET n == Len(s)
        hi == IF b < 0 THEN Max(n + b, 0) ELSE Min(b, n)
        lo == Min(a, n)
    IN  IF hi <= lo THEN <<>> ELSE SubSeq(s, lo + 1, hi)

(***************************************************************************)
(* struct.pack / numpy big-endian integers.                                *)
(***************************************************************************)
\* struct.pack('>h', n), -32768 <= n <= 32767
PackI16(n) ==
    LET w == IF n < 0 THEN n + 65536 ELSE n
    IN  <<w \div 256, w % 256>>

\* struct.pack('>i', n), -2^31 <= n < 2^31
PackI32(n) ==
    LET m == IF n < 0 THEN -(n + 1) ELSE n
        bs == <<m \div 16777216, (m \div 65536) % 256, (m \div 256) % 256,
                m % 256>>
    IN  IF n < 0 THEN [i \in 1..4 |-> 255 - bs[i]] ELSE bs

\* numpy '>i2'
ParseI16(b) ==
    LET w == b[1] * 256 + b[2]
    IN  IF w >= 32768 THEN w - 65536 ELSE w

\* numpy '>i4'
ParseI32(b) ==
    IF b[1] >= 128
    THEN -((255 - b[1]) * 16777216 + (255 - b[2]) * 65536
            + (255 - b[3]) * 256 + (255 - b[4])) - 1
    ELSE b[1] * 16777216 + b[2] * 65536 + b[3] * 256 + b[4]

(***************************************************************************)
(* float64 cells.                                                          *)
(***************************************************************************)
Num(v) == [k |-> "num", v |-> v, b |-> <<>>]

NaN == [k |-> "nan", v |-> 0, b |-> <<>>]

Raw(dtype, b) == [k |-> dtype, v |-> 0, b |-> b]

\* byte (F * 2^k) mod 256 of a fraction f < 2^30 shifted left by k bits
ShiftByte(f, k) ==
    IF k >= 8 THEN 0
    ELSE IF k >= 0 THEN ((f % 256) * Pow2(k)) % 256
    ELSE IF -k > 30 THEN 0
    ELSE (f \div Pow2(-k)) % 256

\* ndarray.astype('>f8').tofile of the number v/2
EncodeF8(v) ==
    IF v = 0 THEN Zeros(8)
    ELSE LET s == IF v < 0 THEN 1 ELSE 0
             a == Abs(v)
             e == Log2(a)
             f == a - Pow2(e)
             biased == e + 1022
             nib == IF e <= 4 THEN f * Pow2(4 - e) ELSE (f \div Pow2(e - 4)) % 16
         IN  <<s * 128 + biased \div 16, (biased % 16) * 16 + nib>>
             \o [j \in 1..6 |-> ShiftByte(f, 4 - e + 8 * j)]

\* ndarray.astype('>f4').tofile of the number v/2: round to nearest, ties to even
EncodeF4(v) ==
    IF v = 0 THEN Zeros(4)
    ELSE LET s == IF v < 0 THEN 1 ELSE 0
             a == Abs(v)
             e == Log2(a)
             sh == e - 23
             q == IF sh <= 0 THEN a * Pow2(-sh) ELSE a \div Pow2(sh)
             rem == IF sh <= 0 THEN 0 ELSE a % Pow2(sh)
             half == IF sh <= 0 THEN 1 ELSE Pow2(sh - 1)
             up == rem > half \/ (rem = half /\ q % 2 = 1)
             q1 == IF up THEN q + 1 ELSE q
             e1 == IF q1 = 16777216 THEN e + 1 ELSE e
             frac == IF q1 = 16777216 THEN 0 ELSE q1 - 8388608
             biased == e1 + 126
         IN  <<s * 128 + biased \div 2, (biased % 2) * 128 + frac \div 65536,
               (frac \div 256) % 256, frac % 256>>

\* ndarray.astype('>i4').tofile of the number v/2: truncation towards zero
EncodeI4(v) == PackI32(IF v < 0 THEN -((-v) \div 2) ELSE v \div 2)

NaNF8 == <<127, 248, 0, 0, 0, 0, 0, 0>>

NaNF4 == <<127, 192, 0, 0>>

ItemSize(dtype) ==
    CASE dtype = ">f4" -> 4
      [] dtype = ">f8" -> 8
      [] dtype = ">i4" -> 4
      [] dtype = "S40" -> 40

\* numpy.fromfile of one '>f8' element, as float64
DecodeF8(b) ==
    LET s == b[1] \div 128
        biased == (b[1] % 128) * 16 + b[2] \div 16
        e == biased - 1022
        \* the fraction's pieces, most significant first: 4 bits, then 6 bytes
        piece == [j \in 0..6 |-> IF j = 0 THEN b[2] % 16 ELSE b[j + 2]]
        \* piece j ends (4 + 8j) bits below the binary point of 1.F
        low(j) == 4 + 8 * j - e
        exact == \A j \in 0..6 :
                     low(j) <= 0 \/ (low(j) >= 8 /\ piece[j] = 0)
                     \/ (low(j) < 8 /\ piece[j] % Pow2(low(j)) = 0)
        part(j) == IF low(j) <= 0 THEN piece[j] * Pow2(-low(j))
                   ELSE IF low(j) >= 8 THEN 0
                   ELSE piece[j] \div Pow2(low(j))
        a == Pow2(e) + part(0) + part(1) + part(2) + part(3) + part(4)
    IN  IF b = Zeros(8) THEN Num(0)
        ELSE IF biased = 2047 /\ (\E j \in 0..6 : piece[j] # 0) THEN NaN
        ELSE IF biased # 2047 /\ e >= 0 /\ e <= 29 /\ exact
             THEN Num(IF s = 1 THEN -a ELSE a)
        ELSE Raw(">f8", b)

\* numpy.fromfile of one '>f4' element, as float64
DecodeF4(b) ==
    LET s == b[1] \div 128
        biased == (b[1] % 128) * 2 + b[2] \div 128
        frac == (b[2] % 128) * 65536 + b[3] * 256 + b[4]
        e == biased - 126
        exact == e >= 23 \/ frac % Pow2(23 - e) = 0
        a == Pow2(e) + (IF e >= 23 THEN frac * Pow2(e - 23)
                                    ELSE frac \div Pow2(23 - e))
    IN  IF b = Zeros(4) THEN Num(0)
        ELSE IF biased = 255 /\ frac # 0 THEN NaN
        ELSE IF biased # 255 /\ e >= 0 /\ e <= 29 /\ exact
             THEN Num(IF s = 1 THEN -a ELSE a)
        ELSE Raw(">f4", b)

\* numpy.fromfile of one '>i4' element, as float64
DecodeI4(b) ==
    LET n == ParseI32(b)
    IN  IF n > -536870912 /\ n < 536870912 THEN Num(2 * n) ELSE Raw(">i4", b)


\* numpy.fromfile(fh, dtype=dtype, count=1) of a numeric dtype, as float64
DecodeItem(dtype, b) ==
    CASE dtype = ">f4" -> DecodeF4(b)
      [] dtype = ">f8" -> DecodeF8(b)
      [] dtype = ">i4" -> DecodeI4(b)

\* cell.astype(dtype).tofile(fh); nanInt is what the platform's float to
\* int32 conversion yields for numpy.nan (undefined in C)
EncodeItem(dtype, cell, nanInt) ==
    CASE cell.k = "num" /\ dtype = ">f4" -> EncodeF4(cell.v)
      [] cell.k = "num" /\ dtype = ">f8" -> EncodeF8(cell.v)
      [] cell.k = "num" /\ dtype = ">i4" -> EncodeI4(cell.v)
      [] cell.k = "nan" /\ dtype = ">f4" -> NaNF4
      [] cell.k = "nan" /\ dtype = ">f8" -> NaNF8
      [] cell.k = "nan" /\ dtype = ">i4" -> PackI32(nanInt)
      [] cell.k = dtype -> cell.b

(***************************************************************************)
(* Class attributes FID, DTYPE_STR, DTYPE_INT.                             *)
(***************************************************************************)
FID == [b \in {<<0, 6>>, <<0, 8>>, <<0, 12>>} |-> b[2]]

DTYPE_STR == [c \in {0, 3, 4, 1} |->
                 CASE c = 0 -> ">f4" [] c = 3 -> ">f8" [] c = 4 -> ">i4"
                   [] c = 1 -> "S40"]

DTYPE_INT == [d \in {">f4", ">f8", ">i4"} |->
                 CASE d = ">f4" -> 0 [] d = ">f8" -> 3 [] d = ">i4" -> 4]

(***************************************************************************)
(* unique_headers.                                                         *)
(***************************************************************************)
chars == <<65, 66, 67, 68, 69, 70, 71, 72, 73, 74, 75, 76, 77, 78, 79, 80,
           81, 82, 83, 84, 85, 86, 87, 88, 89, 90>>

\* the label the p-th execution of headers.append adds: the three loop
\* nests run one after the other, the first letter outermost
Label(p) ==
    LET n == Len(chars)
        q2 == p - n - 1
        q3 == p - n - n * n - 1
    IN  IF p <= n THEN <<chars[p]>>
        ELSE IF p <= n + n * n
             THEN <<chars[(q2 \div n) + 1], chars[(q2 % n) + 1]>>
        ELSE <<chars[(q3 \div (n * n)) + 1], chars[((q3 \div n) % n) + 1],
               chars[(q3 % n) + 1]>>

\* Every loop body tests `if number` before it appends and decrements after:
\* body p (1-based, over the three nests) sees number - (p - 1), and the
\* function returns the p - 1 labels so far at the first body that sees 0.
\* When no body sees 0 the loops run out and NotImplementedError is raised.
unique_headers(number) ==
    LET n == Len(chars)
        bodies == n + n * n + n * n * n
    IN  IF \E p \in 1..bodies : number - (p - 1) = 0
        THEN [exc |-> "", headers |-> [p \in 1..number |-> Label(p)]]
        ELSE [exc |-> "NotImplementedError", headers |-> <<>>]

(***************************************************************************)
(* QDAfile objects.                                                        *)
(*   has: the attributes among columns, rows, headers, dtypes, data that   *)
(*   have been assigned; exc: the exception the constructor raised ("" if  *)
(*   none); starts, pos: for an object read from a file, the stream offset *)
(*   at the start of each column's payload and the final stream offset.    *)
(***************************************************************************)
TableAttrs == {"columns", "rows", "headers", "dtypes", "data"}

EmptyArray == [shape |-> <<0, 0>>, cells |-> <<>>]

\* the object after the first two statements of __init__
NewObject ==
    [exc |-> "", msg |-> "", fid |-> 12, has |-> {}, columns |-> 0,
     rows |-> <<>>, headers |-> <<>>, dtypes |-> <<>>, data |-> EmptyArray,
     starts |-> <<>>, pos |-> 0]

\* a constructor that has assigned self.columns by the time it raises
RaiseAfterAssigning(obj, exc, msg) ==
    [obj EXCEPT !.exc = exc, !.msg = msg, !.has = {"columns"}]

\* raise exc(msg) out of the constructor: no attribute has been assigned
Raise(obj, exc, msg) == [obj EXCEPT !.exc = exc, !.msg = msg]

\* numpy.atleast_2d(numpy.asarray(arg, dtype='>f8'))
AtLeast2d(a) ==
    IF Len(a.shape) = 1
    THEN [shape |-> <<1, a.shape[1]>>, cells |-> <<a.cells>>]
    ELSE a

\* a _fromdata that keeps an over-long header whole
TruncateHeaderNot(h) == h

\* headers[i][0:40]
TruncateHeader(h) == Slice(h, 0, HeaderWidth)

\* QDAfile._fromdata; an argument that is None or empty is <<>>
FromData(a, rowsArg, headersArg, dtypesArg) ==
    LET self == NewObject
        data == AtLeast2d(a)
        columns == data.shape[1]
        rowsBad == rowsArg # <<>> /\ Len(rowsArg) < columns
        rows == IF rowsArg # <<>>
                THEN [i \in 1..columns |-> rowsArg[i]]
                ELSE [i \in 1..columns |-> data.shape[2]]
        headersBad == headersArg # <<>> /\ Len(headersArg) < columns
        uh0 == unique_headers(columns)
        headers == IF headersArg # <<>>
                   THEN [i \in 1..columns |-> TruncateHeader(headersArg[i])]
                   ELSE uh0.headers
        dtypesBad == dtypesArg # <<>>
                     /\ (Len(dtypesArg) < columns
                         \/ \E i \in 1..columns :
                                dtypesArg[i] \notin DOMAIN DTYPE_INT)
        dtypes == IF dtypesArg # <<>> THEN dtypesArg
                  ELSE [i \in 1..columns |-> ">f8"]
    IN  IF Len(data.shape) > 2
        THEN Raise(self, "ValueError",
                   "data array must be 2 dimensional or less")
        ELSE IF columns > ColumnLimit
        THEN Raise(self, "ValueError",
                   "dimensions of data array are too large")
        ELSE IF rowsBad
        THEN Raise(self, "ValueError", "invalid rows argument")
        ELSE IF rows = <<>>
        THEN Raise(self, "ValueError", "max() arg is an empty sequence")
        ELSE IF SeqMax(rows) > RowLimit
        THEN Raise(self, "ValueError",
                   "data array dimensions are too large")
        ELSE IF headersBad
        THEN Raise(self, "ValueError", "invalid headers argument")
        ELSE IF headersArg = <<>> /\ uh0.exc # ""
        THEN Raise(self, uh0.exc, "")
        ELSE IF dtypesBad
        THEN Raise(self, "ValueError", "invalid dtypes argument")
        ELSE IF Len(dtypes) # columns \/ Len(headers) # columns
                \/ Len(rows) # columns
        THEN Raise(self, "ValueError", "invalid argument(s)")
        ELSE [self EXCEPT !.fid = 12, !.has = TableAttrs,
                          !.data = data, !.columns = columns,
                          !.rows = rows, !.headers = headers,
                          !.dtypes = dtypes]

(***************************************************************************)
(* QDAfile._tofile.                                                        *)
(***************************************************************************)
\* str.encode('latin_1') succeeds iff every code point is below 256
Latin1Encodable(h) == \A i \in 1..Len(h) : h[i] < 256

\* b + b'\x00' * (width - len(b))
PadField(b, width) == b \o Zeros(width - Len(b))

\* the bytes one column adds in the last loop of _tofile, in three parts
ColumnPayload(self, i, nanInt) ==
    Flatten([j \in 1..Len(Slice(self.data.cells[i], 0, self.rows[i])) |->
                EncodeItem(self.dtypes[i], self.data.cells[i][j], nanInt)])

\* a _tofile that repeats the header in a field as wide as the first one
ColumnTrailerNarrow(self, i) ==
    Repeat(RowMarker, self.rows[i]) \o ColumnTag
    \o PadField(self.headers[i], HeaderWidth)

ColumnTrailer(self, i) ==
    Repeat(RowMarker, self.rows[i]) \o ColumnTag
    \o PadField(self.headers[i], TrailerHeaderWidth)

\* The result of a write: exc, the bytes written (all of them, or those
\* written before the exception), rowtab: the bytes written before the
\* first row count, pstart[i] / pend[i]: the bytes written before / up to
\* the end of column i's payload.
ToFile(self, nanInt) ==
    LET n == self.columns
        head == <<0, 12>> \o PackI16(self.columns) \o FileTag
                \o Zeros(HeaderBlock - 12)
        rowtab == Flatten([i \in 1..Len(self.rows) |-> PackI32(self.rows[i])])
        badType == {i \in 1..Len(self.dtypes) :
                       self.dtypes[i] \notin DOMAIN DTYPE_INT}
        nTypes == IF badType = {} THEN Len(self.dtypes)
                  ELSE (CHOOSE i \in badType : \A k \in badType : i <= k) - 1
        typetab == Flatten([i \in 1..nTypes |->
                               PackI16(DTYPE_INT[self.dtypes[i]])])
        badHdr == {i \in 1..Len(self.headers) :
                      ~Latin1Encodable(self.headers[i])}
        nHdrs == IF badHdr = {} THEN Len(self.headers)
                 ELSE (CHOOSE i \in badHdr : \A k \in badHdr : i <= k) - 1
        hdrtab == Flatten([i \in 1..nHdrs |->
                              PadField(self.headers[i], HeaderWidth)])
        tables == head \o rowtab \o typetab \o hdrtab
        \* zip(rows, dtypes, headers, strict=False)
        m == Min(Len(self.rows), Min(Len(self.dtypes), Len(self.headers)))
        pay == [i \in 1..m |-> ColumnPayload(self, i, nanInt)]
        trl == [i \in 1..m |-> ColumnTrailer(self, i)]
        body == Flatten([i \in 1..m |-> pay[i] \o trl[i]])
        before == [i \in 1..m |->
                      Len(tables)
                      + Len(Flatten([k \in 1..(i - 1) |-> pay[k] \o trl[k]]))]
    IN  IF badType # {}
        THEN [exc |-> "KeyError", bytes |-> head \o rowtab \o typetab,
              rowtab |-> Len(head), pstart |-> <<>>, pend |-> <<>>]
        ELSE IF badHdr # {}
        THEN [exc |-> "UnicodeEncodeError", bytes |-> tables,
              rowtab |-> Len(head), pstart |-> <<>>, pend |-> <<>>]
        ELSE [exc |-> "", bytes |-> tables \o body, rowtab |-> Len(head),
              pstart |-> before,
              pend |-> [i \in 1..m |-> before[i] + Len(pay[i])]]

NoFile == [exc |-> "", bytes |-> <<>>, rowtab |-> 0, pstart |-> <<>>,
           pend |-> <<>>]

(***************************************************************************)
(* QDAfile._fromfile.                                                      *)
(***************************************************************************)
\* the stream offset after fh.read(n) at offset pos
Skip(f, pos, n) == IF n < 0 THEN Len(f) ELSE Min(Len(f), pos + n)

\* how many items numpy.fromfile(fh, dtype, count) returns at offset pos:
\* those the file still holds, all of them when count is negative
ItemsRead(f, pos, size, count) ==
    LET avail == (Len(f) - pos) \div size
    IN  IF count < 0 THEN avail ELSE Min(count, avail)

Item(f, pos, size, j) == SubSeq(f, pos + (j - 1) * size + 1, pos + j * size)

\* an 'S40' item as numpy returns it (trailing zero bytes dropped)
RECURSIVE StripZeros(_)
StripZeros(b) ==
    IF b # <<>> /\ b[Len(b)] = 0 THEN StripZeros(SubSeq(b, 1, Len(b) - 1))
    ELSE b

\* s.split(b'\x00', 1)[0]
BeforeZero(b) ==
    LET z == {i \in 1..Len(b) : b[i] = 0}
    IN  IF z = {} THEN b
        ELSE SubSeq(b, 1, (CHOOSE i \in z : \A k \in z : i <= k) - 1)

Digits == 48..57

\* the bytes a float literal may hold: digits, sign, point, exponent,
\* underscore, white space and the letters of inf, infinity and nan
LiteralBytes ==
    Digits \cup {43, 45, 46, 95, 9, 10, 11, 12, 13, 32}
    \cup {69, 101, 73, 105, 78, 110, 70, 102, 65, 97, 84, 116, 89, 121}

RECURSIVE Decimal(_)
Decimal(b) ==
    IF b = <<>> THEN 0
    ELSE 10 * Decimal(SubSeq(b, 1, Len(b) - 1)) + (b[Len(b)] - 48)

\* The conversion numpy applies when a bytes item is stored into a float64
\* array: [ok |-> FALSE] when the text is no float literal (ValueError).
\* Modelled for all-digit texts and for texts that are plainly no literal.
StringToFloat(b) ==
    CASE b = <<>> -> [ok |-> FALSE, cell |-> NaN]
      [] b # <<>> /\ (\E i \in 1..Len(b) : b[i] \notin LiteralBytes)
           -> [ok |-> FALSE, cell |-> NaN]
      [] b # <<>> /\ (\A i \in 1..Len(b) : b[i] \in Digits)
           -> [ok |-> TRUE, cell |-> Num(2 * Decimal(b))]

\* One pass of the column loop: data[i, 0:row] = numpy.fromfile(...) under
\* contextlib.suppress(Exception), then fh.read(136 + 2 * row).
\* Returns the row of data, the offset after the payload read, the offset
\* after the skip and whether fh.read raised (a negative length below -1).
ReadColumn(f, pos, row, dtype, old) ==
    LET size == ItemSize(dtype)
        n == ItemsRead(f, pos, size, row)
        target == Len(Slice(old, 0, row))
        conv == [j \in 1..n |->
                    IF dtype = "S40"
                    THEN StringToFloat(StripZeros(Item(f, pos, size, j)))
                    ELSE [ok |-> TRUE,
                          cell |-> DecodeItem(dtype, Item(f, pos, size, j))]]
        \* shapes must agree, a single item being broadcast
        fits == n = target \/ n = 1
        stored == fits /\ \A j \in 1..n : conv[j].ok
        after == pos + n * size
        skip == TrailerSkip + 2 * row
    IN  [cells |-> IF stored
                   THEN [j \in 1..Len(old) |->
                            IF j <= target
                            THEN conv[IF n = 1 THEN 1 ELSE j].cell
                            ELSE old[j]]
                   ELSE old,
         payloadEnd |-> after,
         pos |-> Skip(f, after, skip),
         raised |-> skip < -1]

\* the column loop from column i on; st = [cells, starts, pos, raised]
RECURSIVE ReadColumns(_, _, _, _, _)
ReadColumns(f, rows, dtypes, i, st) ==
    IF i > Min(Len(rows), Len(dtypes)) \/ st.raised THEN st
    ELSE LET c == ReadColumn(f, st.pos, rows[i], dtypes[i], st.cells[i])
         IN  ReadColumns(f, rows, dtypes, i + 1,
                 [cells |-> [st.cells EXCEPT ![i] = c.cells],
                  starts |-> Append(st.starts, st.pos),
                  pos |-> c.pos,
                  raised |-> c.raised])

FromFile(f) ==
    LET self == NewObject
        fid == Slice(f, 0, 2)
        self1 == [self EXCEPT !.fid = FID[fid], !.pos = 2]
        nc == ItemsRead(f, 2, 2, 1)
        columns == ParseI16(Item(f, 2, 2, 1))
        pos0 == Skip(f, 4, HeaderBlock - 4)
        rsize == IF self1.fid = 12 THEN 4 ELSE 2
        nrows == ItemsRead(f, pos0, rsize, columns)
        rows == [i \in 1..nrows |->
                    IF rsize = 4 THEN ParseI32(Item(f, pos0, 4, i))
                    ELSE ParseI16(Item(f, pos0, 2, i))]
        pos1 == pos0 + nrows * rsize
        ntypes == ItemsRead(f, pos1, 2, columns)
        types == [i \in 1..ntypes |-> ParseI16(Item(f, pos1, 2, i))]
        pos2 == pos1 + ntypes * 2
        badType == \E i \in 1..ntypes : types[i] \notin DOMAIN DTYPE_STR
        dtypes == [i \in 1..ntypes |-> DTYPE_STR[types[i]]]
        nhdrs == ItemsRead(f, pos2, HeaderWidth, columns)
        headers == [i \in 1..nhdrs |->
                       BeforeZero(StripZeros(Item(f, pos2, HeaderWidth, i)))]
        pos3 == pos2 + nhdrs * HeaderWidth
        width == IF rows # <<>> THEN SeqMax(rows) ELSE 0
        blank == [i \in 1..columns |-> [j \in 1..width |-> NaN]]
        st == ReadColumns(f, rows, dtypes, 1,
                  [cells |-> blank, starts |-> <<>>, pos |-> pos3,
                   raised |-> FALSE])
    IN  IF fid \notin DOMAIN FID
        THEN Raise([self EXCEPT !.pos = Len(fid)], "OSError",
                   "not a QDA file or unsupported version")
        ELSE IF nc = 0
        THEN Raise([self1 EXCEPT !.pos = Len(f)], "IndexError", "")
        ELSE IF columns < 0 \/ columns > ColumnLimit
        THEN Raise([self1 EXCEPT !.pos = 4], "OSError", "not a QDA file")
        ELSE IF badType
        THEN Raise([self1 EXCEPT !.pos = pos2], "ValueError",
                   "the file contains data of unsupported type")
        ELSE IF width < 0
        THEN Raise([self1 EXCEPT !.pos = pos3], "ValueError",
                   "negative dimensions are not allowed")
        ELSE IF st.raised
        THEN Raise([self1 EXCEPT !.pos = st.pos, !.starts = st.starts],
                   "ValueError", "read length must be non-negative or -1")
        ELSE [self1 EXCEPT !.has = TableAttrs,
                           !.data = [shape |-> <<columns, width>>,
                                     cells |-> st.cells],
                           !.dtypes = dtypes, !.columns = columns,
                           !.rows = rows, !.headers = headers,
                           !.starts = st.starts, !.pos = st.pos]

(***************************************************************************)
(* Inputs.                                                                 *)
(***************************************************************************)
\* 1.0, 1.5, -2.5 and 16777217.0 (which float32 cannot hold)
DataValues == <<Num(2), Num(3), Num(-5), Num(33554434)>>

\* the cell of row i, column j of a c x w input array: the values in turn
Cell(i, j, w) == DataValues[(((i - 1) * w + (j - 1)) % Len(DataValues)) + 1]

Array2d(c, w) ==
    [shape |-> <<c, w>>,
     cells |-> [i \in 1..c |-> [j \in 1..w |-> Cell(i, j, w)]]]

Array1d(w) == [shape |-> <<w>>, cells |-> [j \in 1..w |-> Cell(1, j, w)]]

Array3d == [shape |-> <<1, 1, 1>>, cells |-> <<<<<<Num(2)>>>>>>]

\* more columns than the format allows, no rows
ArrayWide ==
    [shape |-> <<ColumnLimit + 1, 0>>,
     cells |-> [i \in 1..(ColumnLimit + 1) |-> <<>>]]

Arrays ==
    {Array2d(c, w) : c \in 0..MaxColumns, w \in 0..MaxWidth}
    \cup {Array1d(w) : w \in 0..MaxWidth}
    \cup {Array3d, ArrayWide}

\* the number of columns _fromdata sees in an input array
ColumnsOf(a) == IF Len(a.shape) = 1 THEN 1 ELSE a.shape[1]

RowInputs == <<-1, 0, 1, MaxWidth, MaxWidth + 1, RowLimit + 1>>

\* "X", "", "Y\0Z", 40 letters, 41 letters, a character outside Latin-1
HeaderInputs ==
    << <<88>>, <<>>, <<89, 0, 90>>, [i \in 1..HeaderWidth |-> 97],
       [i \in 1..(HeaderWidth + 1) |-> IF i <= HeaderWidth THEN 97 ELSE 98],
       <<8364>> >>

DtypeInputs == <<">f8", ">i4", ">f4">>

\* a list of length n that walks through the choices from choice s on,
\* d choices at a time: every list of length 1 or 2 is of this form
Progression(choices, s, d, n) ==
    [i \in 1..n |-> choices[((s + (i - 1) * d) % Len(choices)) + 1]]

Progressions(choices, n) ==
    {Progression(choices, s, d, n) :
        s \in 0..(Len(choices) - 1), d \in 0..(Len(choices) - 1)}

Rotation(choices, s, n) == Progression(choices, s, 1, n)

\* the overrides tried for an array of c columns: none, every list of row
\* counts, lists one short and one long
RowsArgs(c) ==
    {<<>>} \cup Progressions(RowInputs, c)
    \cup {[i \in 1..(c - 1) |-> 1], [i \in 1..(c + 1) |-> 1]}

HeadersArgs(c) ==
    {<<>>} \cup {Rotation(HeaderInputs, s, c) : s \in 0..(Len(HeaderInputs) - 1)}
    \cup {Rotation(HeaderInputs, 0, c - 1), Rotation(HeaderInputs, 0, c + 1)}

DtypesArgs(c) ==
    {<<>>} \cup {Rotation(DtypeInputs, s, c) : s \in 0..(Len(DtypeInputs) - 1)}
    \cup {Rotation(DtypeInputs, 0, c - 1), Rotation(DtypeInputs, 0, c + 1),
          [i \in 1..c |-> "S40"]}

\* what the platform's conversion of numpy.nan to int32 may yield
NanInts == {-2147483647 - 1, 0}

\* "", "ab", "2": the texts of a fixed-string column of an input file
S40Inputs == {<<>>, <<97, 98>>, <<50>>}

FidInputs == {<<0, 6>>, <<0, 8>>, <<0, 12>>, <<255, 255>>}

CodeInputs == <<0, 1, 3, 4, 99>>

FileRowInputs == [i \in 1..(MaxWidth + 2) |-> i - 2]

\* the payload of one column of an input file: row items of the type the
\* code names (none for a code that names no type)
FilePayload(i, row, code, text) ==
    Flatten([j \in 1..row |->
        CASE code = 1 -> PadField(text, 40)
          [] code \in {0, 3, 4} ->
                 EncodeItem(DTYPE_STR[code], Cell(i, j, MaxWidth), 0)
          [] OTHER -> <<>>])

\* An input file in the layout _fromfile reads: identifier, column count,
\* the rest of the 512 byte block, row counts (32 bit for identifier 12,
\* else 16 bit), type codes, 40 byte headers, and per column the payload
\* followed by 136 + 2 * row bytes.
LegacyFile(fid, columns, rows, codes, text) ==
    LET n == Len(rows)
    IN  fid \o PackI16(columns) \o Zeros(HeaderBlock - 4)
        \o Flatten([i \in 1..n |->
               IF fid = <<0, 12>> THEN PackI32(rows[i]) ELSE PackI16(rows[i])])
        \o Flatten([i \in 1..n |-> PackI16(codes[i])])
        \o Flatten([i \in 1..n |->
               PadField(Rotation(HeaderInputs, 0, n)[i], HeaderWidth)])
        \o Flatten([i \in 1..n |->
               FilePayload(i, rows[i], codes[i], text)
               \o Zeros(TrailerSkip + 2 * rows[i])])

LegacyFiles ==
    {LegacyFile(fid, c, <<>>, <<>>, <<>>) :
        fid \in FidInputs, c \in {-1, 0, ColumnLimit + 1}}
    \cup {LegacyFile(<<255, 255>>, 1, <<1>>, <<c>>, <<>>) : c \in {3, 99}}
    \cup UNION {
           {LegacyFile(fid, c, rows, codes, text) :
               fid \in DOMAIN FID, rows \in Progressions(FileRowInputs, c),
               codes \in Progressions(CodeInputs, c), text \in S40Inputs}
           : c \in 1..MaxColumns}

NumberInputs ==
    ((-1)..MaxNumber) \cup {701, 702, 703, 18277, 18278, 18279}

NoInput ==
    [kind |-> "none", array |-> EmptyArray, rows |-> <<>>, headers |-> <<>>,
     dtypes |-> <<>>, file |-> <<>>, number |-> 0]

(***************************************************************************)
(* The state machine: a program that builds one object t (from an array or *)
(* from an input file), writes it to a file fh, and reads that file back   *)
(* into a second object u; or that calls unique_headers.                   *)
(***************************************************************************)
Init ==
    /\ pc = "start"
    /\ arg = NoInput
    /\ t = NewObject
    /\ fh = NoFile
    /\ u = NewObject
    /\ uh = [exc |-> "", headers |-> <<>>]

\* QDAfile(array, rows=..., headers=..., dtypes=...)
Construct ==
    /\ pc = "start"
    /\ \E a \in Arrays :
         LET c == Min(ColumnsOf(a), MaxColumns)
         IN  \E r \in RowsArgs(c), h \in HeadersArgs(c), d \in DtypesArgs(c) :
               /\ t' = FromData(a, r, h, d)
               /\ arg' = [NoInput EXCEPT !.kind = "data", !.array = a,
                                         !.rows = r, !.headers = h,
                                         !.dtypes = d]
    /\ pc' = IF t'.exc = "" THEN "built" ELSE "failed"
    /\ UNCHANGED <<fh, u, uh>>

\* QDAfile(file)
Open ==
    /\ pc = "start"
    /\ \E f \in LegacyFiles :
         /\ t' = FromFile(f)
         /\ arg' = [NoInput EXCEPT !.kind = "file", !.file = f]
    /\ pc' = IF t'.exc = "" THEN "built" ELSE "failed"
    /\ UNCHANGED <<fh, u, uh>>

\* t.write(file)
Write ==
    /\ pc = "built"
    /\ \E nanInt \in NanInts : fh' = ToFile(t, nanInt)
    /\ pc' = IF fh'.exc = "" THEN "written" ELSE "write_failed"
    /\ UNCHANGED <<arg, t, u, uh>>

\* u = QDAfile(the file t wrote)
Reopen ==
    /\ pc = "written"
    /\ u' = FromFile(fh.bytes)
    /\ pc' = IF u'.exc = "" THEN "reread" ELSE "reread_failed"
    /\ UNCHANGED <<arg, t, fh, uh>>

\* unique_headers(number)
Headers ==
    /\ pc = "start"
    /\ \E n \in NumberInputs :
         /\ uh' = unique_headers(n)
         /\ arg' = [NoInput EXCEPT !.kind = "number", !.number = n]
    /\ pc' = "labelled"
    /\ UNCHANGED <<t, fh, u>>

Next == Construct \/ Open \/ Write \/ Reopen \/ Headers

Spec == Init /\ [][Next]_vars

(***************************************************************************)
(* Vocabulary of the properties.                                           *)
(***************************************************************************)
\* t is a Table: its constructor returned
HasTable == pc \in {"built", "written", "write_failed", "reread",
                    "reread_failed"}

\* t has been written in full
HasFile == pc \in {"written", "reread", "reread_failed"}

\* the file t wrote has been opened (u is a Table iff pc = "reread")
Reopened == pc \in {"reread", "reread_failed"}

\* t was read from the input file
FromInputFile == arg.kind = "file" /\ pc # "start"

\* t was built from the input array
FromArray == arg.kind = "data" /\ pc # "start"

NumericTypes == {">f4", ">f8", ">i4"}

\* the invariant of the data model
TableInvariant(o) ==
    /\ Len(o.rows) = o.columns
    /\ Len(o.headers) = o.columns
    /\ Len(o.dtypes) = o.columns
    /\ \A i \in 1..Len(o.rows) : 0 <= o.rows[i] /\ o.rows[i] <= 32768
    /\ \A i \in 1..Len(o.rows) : o.data.shape[2] >= o.rows[i]

\* a cell after the loss of precision of its column's element type
Stored(dtype, cell) == DecodeItem(dtype, EncodeItem(dtype, cell, 0))

\* the offset at which column i's trailer ends in the file t wrote
ColumnEnd(i) ==
    IF i < Len(fh.pstart) THEN fh.pstart[i + 1] ELSE Len(fh.bytes)

\* the offset at which the decoder starts the column after column i of o,
\* or ends
NextStart(o, i) == IF i < Len(o.starts) THEN o.starts[i + 1] ELSE o.pos

\* what the first bytes of a file declare
FileId(f) == SubSeq(f, 1, 2)

FileColumns(f) == ParseI16(SubSeq(f, 3, 4))

FileIdKnown(f) == FileId(f) \in {<<0, 6>>, <<0, 8>>, <<0, 12>>}

FileColumnsOk(f) == FileColumns(f) >= 0 /\ FileColumns(f) <= 1000

FileRow(f, i) ==
    IF FileId(f) = <<0, 12>>
    THEN ParseI32(SubSeq(f, 512 + 4 * i - 3, 512 + 4 * i))
    ELSE ParseI16(SubSeq(f, 512 + 2 * i - 1, 512 + 2 * i))

FileTypesAt(f) ==
    512 + (IF FileId(f) = <<0, 12>> THEN 4 ELSE 2) * FileColumns(f)

FileType(f, i) ==
    ParseI16(SubSeq(f, FileTypesAt(f) + 2 * i - 1, FileTypesAt(f) + 2 * i))

FileHeadersAt(f) == FileTypesAt(f) + 2 * FileColumns(f)

(***************************************************************************)
(* C1: round trip. For every Table t built from an array with columns <=   *)
(* 1000, rows[i] <= 32768, headers of at most 40 Latin-1 bytes and numeric *)
(* dtypes, reading back the file t writes gives a Table with the columns,  *)
(* rows, headers and dtypes of t and, in each column, the first rows[i]    *)
(* values of t up to the precision of the column's type.                   *)
(***************************************************************************)
C1_RoundTrip ==
    (/\ FromArray
     /\ Reopened
     /\ t.columns <= 1000
     /\ \A i \in 1..Len(t.rows) : t.rows[i] <= 32768
     /\ \A i \in 1..Len(t.headers) :
            Len(t.headers[i]) <= 40 /\ Latin1Encodable(t.headers[i])
     /\ \A i \in 1..Len(t.dtypes) : t.dtypes[i] \in NumericTypes)
    => /\ pc = "reread"
       /\ u.columns = t.columns
       /\ u.rows = t.rows
       /\ u.headers = t.headers
       /\ u.dtypes = t.dtypes
       /\ \A i \in 1..t.columns : \A j \in 1..t.rows[i] :
              /\ j <= Len(t.data.cells[i])
              /\ j <= Len(u.data.cells[i])
              /\ u.data.cells[i][j] = Stored(t.dtypes[i], t.data.cells[i][j])

(***************************************************************************)
(* C2: lockstep. For every Table that satisfies the Table invariant, the   *)
(* encoder writes exactly 512 bytes before the row counts and exactly      *)
(* 136 + 2 * rows[i] bytes after column i's payload; the decoder reading   *)
(* that file starts every column at the first byte of its payload and ends *)
(* exactly at the end of the file.                                         *)
(***************************************************************************)
C2_Lockstep ==
    (HasFile /\ TableInvariant(t))
    => /\ fh.rowtab = 512
       /\ Len(fh.pstart) = t.columns
       /\ \A i \in 1..t.columns :
              ColumnEnd(i) - fh.pend[i] = 136 + 2 * t.rows[i]
       /\ Reopened
          => /\ pc = "reread"
             /\ u.starts = fh.pstart
             /\ u.pos = Len(fh.bytes)

C2_Witness ==
    /\ pc = "reread"
    /\ TableInvariant(t)
    /\ t.columns = 2
    /\ t.rows[1] > t.rows[2]
    /\ t.rows[2] > 0
    /\ t.dtypes[1] # t.dtypes[2]
    /\ u.starts = fh.pstart
    /\ u.pos = Len(fh.bytes)

(***************************************************************************)
(* C3: the encoder never fails on a Table that construction from arrays or *)
(* a decode returned (fixed-string columns included; headers taken to be   *)
(* Latin-1 text, as the data model has them), and writes for each column   *)
(* the type code that the decode mapping takes to its dtype.               *)
(***************************************************************************)
C3_EncoderNeverFails ==
    /\ (\A i \in 1..Len(t.headers) : Latin1Encodable(t.headers[i]))
       => pc # "write_failed"
    /\ HasFile
       => \A i \in 1..t.columns :
              LET at == 512 + 4 * t.columns + 2 * (i - 1)
                  code == ParseI16(SubSeq(fh.bytes, at + 1, at + 2))
              IN  code \in DOMAIN DTYPE_STR /\ DTYPE_STR[code] = t.dtypes[i]

C5_EmptyTable ==
    (/\ FromArray
     /\ arg.array.shape = <<0>>
     /\ arg.rows = <<>> /\ arg.headers = <<>> /\ arg.dtypes = <<>>)
    => /\ t.exc = ""
       /\ t.columns = 0
       /\ Reopened
          => /\ pc = "reread"
             /\ u.columns = 0
             /\ u.rows = <<>> /\ u.headers = <<>> /\ u.dtypes = <<>>
             /\ u.data.shape[2] = 0

(***************************************************************************)
(* C6: for 0 <= n <= 18278 unique_headers(n) returns exactly the first n   *)
(* labels of A..Z, AA..ZZ, AAA..ZZZ, all distinct; it fails only when n    *)
(* exceeds 18278.                                                          *)
(***************************************************************************)
C6_UniqueHeaders ==
    (pc = "labelled" /\ arg.number >= 0)
    => LET n == arg.number
           letter(k) == 65 + k
           label(p) ==
               IF p <= 26 THEN <<letter(p - 1)>>
               ELSE IF p <= 702
                    THEN <<letter((p - 27) \div 26), letter((p - 27) % 26)>>
               ELSE <<letter((p - 703) \div 676),
                      letter(((p - 703) \div 26) % 26),
                      letter((p - 703) % 26)>>
       IN  /\ uh.exc # "" => n > 18278
           /\ n <= 18278
              => /\ uh.exc = ""
                 /\ Len(uh.headers) = n
                 /\ \A p \in 1..n : uh.headers[p] = label(p)
                 /\ Cardinality({uh.headers[p] : p \in 1..n}) = n

(***************************************************************************)
(* C7: every Table that construction from arrays or decode returns has     *)
(* len(rows) = len(headers) = len(dtypes) = columns, 0 <= rows[i] <= 32768 *)
(* and a data buffer at least max(rows) wide.                              *)
(***************************************************************************)
C7_TableInvariant ==
    /\ HasTable => TableInvariant(t)
    /\ pc = "reread" => TableInvariant(u)

(***************************************************************************)
(* C8: decode failures. Reading file f into object o fails with OSError if *)
(* the first 2 bytes are no known identifier, else with OSError if the     *)
(* column count is below 0 or above 1000, else with ValueError if a type   *)
(* code is not 0, 1, 3 or 4: each before any header or payload is read,    *)
(* and a failed decode assigns none of columns, rows, headers, dtypes,     *)
(* data.                                                                   *)
(***************************************************************************)
FailsAsClaimed(f, o) ==
    /\ o.exc # "" => o.has = {}
    /\ ~FileIdKnown(f)
       => /\ o.exc = "OSError"
          /\ o.msg = "not a QDA file or unsupported version"
          /\ o.pos <= 2
    /\ (FileIdKnown(f) /\ ~FileColumnsOk(f))
       => /\ o.exc = "OSError"
          /\ o.msg = "not a QDA file"
          /\ o.pos = 4
    /\ (/\ FileIdKnown(f)
        /\ FileColumnsOk(f)
        /\ \E i \in 1..FileColumns(f) : FileType(f, i) \notin {0, 1, 3, 4})
       => /\ o.exc = "ValueError"
          /\ o.msg = "the file contains data of unsupported type"
          /\ o.pos <= FileHeadersAt(f)

C8_DecodeFailures ==
    /\ FromInputFile => FailsAsClaimed(arg.file, t)
    /\ Reopened => FailsAsClaimed(fh.bytes, u)

C8_Witness ==
    /\ FromInputFile
    /\ pc = "failed"
    /\ FileIdKnown(arg.file)
    /\ FileColumns(arg.file) = 2
    /\ FileType(arg.file, 1) = 4
    /\ FileType(arg.file, 2) = 99
    /\ t.exc = "ValueError"
    /\ t.has = {}
    /\ t.pos = FileHeadersAt(arg.file)

(***************************************************************************)
(* C9: the encoder writes for column i exactly the first rows[i] values of *)
(* data[i]; every decoded Table has data of shape columns x max(rows),     *)
(* with the file's value in data[i, j] for j < rows[i] and NaN beyond.     *)
(***************************************************************************)
PaddedAsClaimed(f, o) ==
    /\ o.data.shape
       = <<o.columns, IF o.rows = <<>> THEN 0 ELSE SeqMax(o.rows)>>
    /\ \A i \in 1..o.columns : \A j \in 1..o.data.shape[2] :
           IF j > o.rows[i] THEN o.data.cells[i][j] = NaN
           ELSE o.dtypes[i] \in NumericTypes
                => LET size == ItemSize(o.dtypes[i])
                       at == o.starts[i] + (j - 1) * size
                   IN  /\ at + size <= Len(f)
                       /\ o.data.cells[i][j]
                          = DecodeItem(o.dtypes[i], SubSeq(f, at + 1, at + size))

C9_TruncationAndPadding ==
    /\ HasFile
       => \A i \in 1..t.columns :
              /\ 0 <= t.rows[i]
              /\ t.rows[i] <= Len(t.data.cells[i])
              /\ SubSeq(fh.bytes, fh.pstart[i] + 1, fh.pend[i])
                 = Flatten([j \in 1..t.rows[i] |->
                       EncodeItem(t.dtypes[i], t.data.cells[i][j], 0)])
    /\ (FromInputFile /\ t.exc = "") => PaddedAsClaimed(arg.file, t)
    /\ pc = "reread" => PaddedAsClaimed(fh.bytes, u)

(***************************************************************************)
(* C10: a column tagged as the fixed 40 byte string type does not make the *)
(* decode fail; its cells stay NaN, the cursor advances by 40 * rows[i]    *)
(* plus the 136 + 2 * rows[i] trailer, and the numeric columns hold the    *)
(* values of their own payloads.                                           *)
(***************************************************************************)
C10_FixedString ==
    (/\ FromInputFile
     /\ FileIdKnown(arg.file)
     /\ FileColumnsOk(arg.file)
     /\ \A i \in 1..FileColumns(arg.file) :
            FileType(arg.file, i) \in {0, 1, 3, 4}
     /\ \E i \in 1..FileColumns(arg.file) : FileType(arg.file, i) = 1
     /\ \A i \in 1..FileColumns(arg.file) : FileRow(arg.file, i) >= 0)
    => /\ t.exc = ""
       /\ \A i \in 1..t.columns :
              IF t.dtypes[i] = "S40"
              THEN /\ \A j \in 1..t.rows[i] : t.data.cells[i][j] = NaN
                   /\ NextStart(t, i)
                      = t.starts[i] + 40 * t.rows[i] + 136 + 2 * t.rows[i]
              ELSE \A j \in 1..t.rows[i] :
                       LET size == ItemSize(t.dtypes[i])
                           at == t.starts[i] + (j - 1) * size
                       IN  t.data.cells[i][j]
                           = DecodeItem(t.dtypes[i],
                                        SubSeq(arg.file, at + 1, at + size))

=============================================================================
